---- MODULE Spec2Model ----
(***************************************************************************)
(* State-machine model of the DynamoDB CSV importer:                       *)
(*   - transform_row / build_nested_structure / type_converter             *)
(*   - write_to_dynamo with its ThreadPoolExecutor                         *)
(*   - ProgressTracker and its persisted progress file                     *)
(*   - main: tracker set-up, sample-row check, return code                 *)
(* Text (CSV keys and values) is a sequence of one-character strings.      *)
(***************************************************************************)
EXTENDS Integers, Sequences, FiniteSets, TLC

\* ---------------------------------------------------------------- bounds
MaxRows == 3
MaxBatchSize == 2
MaxWorkers == 2
MaxClock == 1
NumThreads == 2
MaxCalls == 2
MaxDelta == 1
MaxTotal == 2
MaxKeys == 2

\* ---------------------------------------------------------------- text
None == [kind |-> "none"]
Raised == [kind |-> "raise"]
Value(v) == [kind |-> "value", v |-> v]

Digits == {"0", "1", "2", "3", "4", "5", "6", "7", "8", "9"}

DigitVal(c) ==
    CASE c = "0" -> 0 [] c = "1" -> 1 [] c = "2" -> 2 [] c = "3" -> 3
      [] c = "4" -> 4 [] c = "5" -> 5 [] c = "6" -> 6 [] c = "7" -> 7
      [] c = "8" -> 8 [] c = "9" -> 9

IsDecimalText(s) == Len(s) > 0 /\ \A j \in 1..Len(s) : s[j] \in Digits

RECURSIVE DecimalOf(_)
DecimalOf(s) ==
    IF Len(s) = 0 THEN 0
    ELSE 10 * DecimalOf(SubSeq(s, 1, Len(s) - 1)) + DigitVal(s[Len(s)])

\* str.lower(), str.strip() and str.split(sep) on the characters that occur
\* in the texts of the model.
LowerChar(c) ==
    CASE c = "A" -> "a" [] c = "D" -> "d" [] c = "E" -> "e"
      [] c = "G" -> "g" [] c = "I" -> "i" [] c = "Q" -> "q"
      [] c = "Y" -> "y" [] OTHER -> c

Lower(s) == [j \in 1..Len(s) |-> LowerChar(s[j])]

RECURSIVE LStrip(_)
LStrip(s) == IF Len(s) > 0 /\ s[1] = " " THEN LStrip(Tail(s)) ELSE s

RECURSIVE RStrip(_)
RStrip(s) ==
    IF Len(s) > 0 /\ s[Len(s)] = " " THEN RStrip(SubSeq(s, 1, Len(s) - 1)) ELSE s

Strip(s) == RStrip(LStrip(s))

StartsWith(s, c) == Len(s) > 0 /\ s[1] = c

Contains(s, c) == \E j \in 1..Len(s) : s[j] = c

RECURSIVE Split(_, _)
Split(s, sep) ==
    IF ~Contains(s, sep) THEN << s >>
    ELSE LET p == CHOOSE j \in 1..Len(s) :
                    s[j] = sep /\ \A h \in 1..(j - 1) : s[h] # sep
         IN  << SubSeq(s, 1, p - 1) >> \o Split(SubSeq(s, p + 1, Len(s)), sep)

\* Decimal(value): an exact decimal (surrounding whitespace is ignored), or
\* decimal.InvalidOperation, which is an ArithmeticError and so is not caught
\* by "except (ValueError, TypeError)".
Decimal(s) ==
    IF IsDecimalText(Strip(s)) THEN Value([dec |-> DecimalOf(Strip(s))]) ELSE Raised

BoolTrueTexts == { <<"t","r","u","e">>, <<"y","e","s">>, <<"1">>, <<"y">> }

\* base64.b64decode(value): characters outside the alphabet are discarded;
\* binascii.Error (a ValueError) when the data characters and the padding do
\* not make whole groups.  The bytes are kept as the data characters that
\* encode them.
Base64Alphabet ==
    Digits \cup {"a", "b", "x", "y", "n", "u", "l", "Y", "Q", "+", "/"}

b64decode(value) ==
    LET data == SelectSeq(value, LAMBDA c : c \in Base64Alphabet)
        pads == Len(SelectSeq(value, LAMBDA c : c = "="))
        rest == Len(data) % 4
    IN  IF rest = 0 \/ (rest = 2 /\ pads >= 2) \/ (rest = 3 /\ pads >= 1)
        THEN Value([bytes |-> data])
        ELSE None

\* json.loads(value) for the literals that occur in the texts of the model:
\* an empty object, an integer, null; json.JSONDecodeError (a ValueError)
\* for any other text.
json_loads(value) ==
    LET t == Strip(value) IN
      IF t = <<"{", "}">> THEN Value([object |-> <<>>])
      ELSE IF t = <<"n", "u", "l", "l">> THEN None
      ELSE IF IsDecimalText(t) /\ (Len(t) = 1 \/ t[1] # "0")
           THEN Value([int |-> DecimalOf(t)])
      ELSE None

\* the type tags of the schema
TypeS    == <<"S">>
TypeN    == <<"N">>
TypeBOOL == <<"B", "O", "O", "L">>
TypeB    == <<"B">>
TypeNULL == <<"N", "U", "L", "L">>
TypeSS   == <<"S", "S">>
TypeNS   == <<"N", "S">>

\* "if not value:" - the result for an empty value
EmptyValueMut(field_type) == None

EmptyValue(field_type) == IF field_type = TypeNULL THEN Value(TRUE) ELSE None

\* [item.strip() for item in value.split(',')], and the pieces that are kept
Pieces(value) == [j \in 1..Len(Split(value, ",")) |-> Strip(Split(value, ",")[j])]

NonEmptyPieces(value) == SelectSeq(Pieces(value), LAMBDA piece : Len(piece) > 0)

\* "field_type.split(':')[1] if ':' in field_type else 'S'"
Subtype(field_type) ==
    IF Contains(field_type, ":") THEN Split(field_type, ":")[2] ELSE TypeS

RECURSIVE type_converter(_, _)

\* the list comprehension of the 'L' branch: every kept piece converted with
\* the subtype; a piece that converts to None stays in the list as None, an
\* exception not caught by the inner call leaves the outer call as well.
ListOf(value, subtype) ==
    LET items == NonEmptyPieces(value)
        conv  == [j \in 1..Len(items) |-> type_converter(items[j], subtype)]
    IN  IF \E j \in 1..Len(items) : conv[j].kind = "raise" THEN Raised
        ELSE Value([list |-> conv])

StringSet(value) ==
    LET items == NonEmptyPieces(value)
    IN  Value([set |-> { items[j] : j \in 1..Len(items) }])

NumberSet(value) ==
    LET items == NonEmptyPieces(value)
    IN  IF \E j \in 1..Len(items) : Decimal(items[j]).kind = "raise" THEN Raised
        ELSE Value([set |-> { Decimal(items[j]).v : j \in 1..Len(items) }])

type_converter(value, field_type) ==
    IF Len(value) = 0 THEN EmptyValue(field_type)
    ELSE IF field_type = TypeS THEN Value(value)
    ELSE IF field_type = TypeN THEN Decimal(value)
    ELSE IF field_type = TypeBOOL THEN Value(Lower(value) \in BoolTrueTexts)
    ELSE IF field_type = TypeB THEN b64decode(value)
    ELSE IF StartsWith(field_type, "L") THEN ListOf(value, Subtype(field_type))
    ELSE IF StartsWith(field_type, "M") THEN json_loads(value)
    ELSE IF field_type = TypeSS THEN StringSet(value)
    ELSE IF field_type = TypeNS THEN NumberSet(value)
    ELSE Value(value)

\* ---------------------------------------------------------------- schema
\* "csv_field, *type_info = field_info.split(':')" and
\* "field_type = type_info[0] if type_info else 'S'"
Leaf(dynamo_field, field_info) ==
    LET parts == Split(field_info, ":") IN
      [dynamo_field |-> dynamo_field,
       csv_field    |-> parts[1],
       field_type   |-> IF Len(parts) > 1 THEN parts[2] ELSE TypeS]

\* config.schema['mapping'] of the job: {"id": "id:S", "age": "age:N"}
Mapping ==
    << Leaf("id",  <<"i", "d", ":", "S">>),
       Leaf("age", <<"a", "g", "e", ":", "N">>) >>

hash_key == "id"

\* A CSV row is a dict: a sequence of <<key, value>> pairs in insertion order.
RowKeys(row) == { row[j][1] : j \in 1..Len(row) }
RowGet(row, key) == row[CHOOSE j \in 1..Len(row) : row[j][1] = key][2]

BOM == "BOM"
StartsWithBOM(s) == StartsWith(s, BOM)

\* Value of one leaf of the mapping: the four resolution steps of the field
\* name, each guarded by "value is None" as in the source.
LeafValue(csv_row, leaf) ==
    LET f    == leaf.csv_field
        t    == leaf.field_type
        keys == RowKeys(csv_row)
        v2 == IF StartsWithBOM(f) /\ Tail(f) \in keys
              THEN type_converter(RowGet(csv_row, Tail(f)), t)
              ELSE None
        v3 == IF v2.kind = "none" /\ ~StartsWithBOM(f) /\ (<<BOM>> \o f) \in keys
              THEN type_converter(RowGet(csv_row, <<BOM>> \o f), t)
              ELSE v2
        hits == { j \in 1..Len(csv_row) :
                    Lower(Strip(csv_row[j][1])) = Lower(Strip(f)) }
        first == CHOOSE j \in hits : \A h \in hits : j <= h
        v4 == IF v3.kind = "none" /\ hits # {}
              THEN type_converter(csv_row[first][2], t)
              ELSE v3
    IN  IF f \in keys THEN type_converter(RowGet(csv_row, f), t) ELSE v4

\* The loop over mapping.items(): result is the dict built so far; a leaf
\* whose value is None is skipped, an exception ends the call.
RECURSIVE build_from(_, _, _)
add_leaf(csv_row, mapping, result, value) ==
    IF value.kind = "raise" THEN Raised
    ELSE build_from(csv_row, Tail(mapping),
                    IF value.kind = "value"
                    THEN (Head(mapping).dynamo_field :> value.v) @@ result
                    ELSE result)

build_from(csv_row, mapping, result) ==
    IF mapping = <<>> THEN [kind |-> "doc", doc |-> result]
    ELSE add_leaf(csv_row, mapping, result, LeafValue(csv_row, Head(mapping)))

build_nested_structure(csv_row, mapping) == build_from(csv_row, mapping, <<>>)

transform_row(row) == build_nested_structure(row, Mapping)

\* "if item:" - a dict is truthy when it is not empty.
Truthy(item) == DOMAIN item # {}


\* ---------------------------------------------------------------- inputs
KeyId  == <<"i","d">>
KeyAge == <<"a","g","e">>
Row(id, age) == << <<KeyId, id>>, <<KeyAge, age>> >>

\* Rows as csv.DictReader yields them for the header "id,age": a complete
\* row, a row with no id, a row with no field at all, a row whose age is
\* not a number.
RowValues ==
    { Row(<<"a","1">>, <<"3","0">>), Row(<<>>, <<"3","0">>),
      Row(<<>>, <<>>),               Row(<<"a","1">>, <<"x">>) }

\* Documents that reach a batch when the source yields rs.
DocsOf(rs) ==
    { transform_row(rs[j]).doc :
        j \in { h \in 1..Len(rs) : /\ transform_row(rs[h]).kind = "doc"
                                   /\ Truthy(transform_row(rs[h]).doc) } }

\* What batch.put_item does with a document: it succeeds, raises ClientError,
\* or raises some other exception.
PutResults == {"ok", "client_error", "throw"}

SeqsUpTo(S, n) == UNION { [1..m -> S] : m \in 0..n }

Min(a, b) == IF a <= b THEN a ELSE b

\* ---------------------------------------------------------------- state
VARIABLES
    rows,            \* the records the source yields
    batch_size,      \* config.batch_size
    max_workers,     \* config.max_workers
    table,           \* the sink: document -> result of put_item
    tracker,         \* TRUE when a ProgressTracker is passed, FALSE for None
    total_items,     \* tracker.total_items
    pc,              \* position of the thread running write_to_dynamo
    i,               \* number of rows consumed from the source
    batches, current_batch,
    successful, failed,
    futures,         \* state of each submitted future
    k,               \* index of the future the collecting loop is at
    updateCalls,     \* per batch: number of tracker.update calls made for it
    status, processed_items, failed_items,   \* ProgressTracker fields
    calc_error,      \* TRUE when the last _calculate_progress raised
    now,             \* time.time() - tracker.start_time
    file,            \* content of the progress file
    lastSnap,        \* last snapshot written in full to the progress file
    tpc,             \* per calling thread: position inside its tracker call
    tcall,           \* per calling thread: the call it is in
    treg,            \* per calling thread: the attribute value it loaded
    tsnap,           \* per calling thread: the progress_data it built
    ncalls,          \* number of tracker calls made so far
    sumP, sumF,      \* sums of the arguments of the update calls made so far
    readerResult,    \* what load_job_data returned last
    mpc,             \* position of main
    exit_code,       \* what main returned
    no_monitor,      \* config.no_monitor (--no-monitor)
    read_error,      \* where read_csv_data raises: in no pass, in the sample
                     \* pass of main, or in the pass write_to_dynamo consumes
    config_error,    \* what is wrong with the schema file or the table
    cpc,             \* position of the caller of type_converter
    conv_value, conv_type,   \* a CSV value and the type tag of its leaf
    conv_result,     \* what type_converter returned for them
    conv_item,       \* what build_nested_structure returned for them
    conv_row,        \* a record whose keys are variants of one column name
    conv_field       \* the source field a schema leaf names

mainVars == <<mpc, exit_code, no_monitor, read_error, config_error>>
convVars == <<cpc, conv_value, conv_type, conv_result, conv_item, conv_row,
              conv_field>>
pipeVars == <<rows, batch_size, max_workers, table, tracker, total_items, pc, i,
              batches, current_batch, successful, failed, futures, k,
              updateCalls, mainVars, convVars>>
trackerVars == <<status, processed_items, failed_items, file, lastSnap, calc_error>>
threadVars == <<tpc, tcall, treg, tsnap, ncalls, sumP, sumF, readerResult>>
vars == <<pipeVars, trackerVars, now, threadVars>>

\* ---------------------------------------------------------------- process_batch
\* The loop "for item in items" from the item at the head on; puts is the
\* sequence of items handed to batch.put_item.
RECURSIVE process_batch_fromMut(_, _, _, _)
process_batch_fromMut(tbl, items, succ, fail) ==
    IF items = <<>>
    THEN [threw |-> FALSE, successful |-> succ, failed |-> fail, puts |-> <<>>]
    ELSE CASE tbl[Head(items)] = "ok" ->
                [process_batch_fromMut(tbl, Tail(items), succ + 1, fail)
                   EXCEPT !.puts = << Head(items) >> \o @]
           [] tbl[Head(items)] = "client_error" ->
                [threw |-> FALSE, successful |-> succ, failed |-> fail + 1,
                 puts |-> << Head(items) >>]
           [] OTHER -> [threw |-> TRUE, successful |-> 0, failed |-> 0,
                        puts |-> << Head(items) >>]

RECURSIVE process_batch_from(_, _, _, _)
process_batch_from(tbl, items, succ, fail) ==
    IF items = <<>>
    THEN [threw |-> FALSE, successful |-> succ, failed |-> fail, puts |-> <<>>]
    ELSE CASE tbl[Head(items)] = "ok" ->
                [process_batch_from(tbl, Tail(items), succ + 1, fail)
                   EXCEPT !.puts = << Head(items) >> \o @]
           [] tbl[Head(items)] = "client_error" ->
                [process_batch_from(tbl, Tail(items), succ, fail + 1)
                   EXCEPT !.puts = << Head(items) >> \o @]
           [] OTHER -> [threw |-> TRUE, successful |-> 0, failed |-> 0,
                        puts |-> << Head(items) >>]

process_batch(tbl, items) == process_batch_from(tbl, items, 0, 0)

\* ---------------------------------------------------------------- ProgressTracker
\* round(x, 2) of 100 * p / t, in hundredths of a percent (ties to even).
RoundDiv(a, b) ==
    LET q == a \div b
        r == a % b
    IN  IF 2 * r > b \/ (2 * r = b /\ q % 2 = 1) THEN q + 1 ELSE q

progress_percentageMut(p, t) == IF t > 0 THEN RoundDiv(10000 * p, t) ELSE 0

progress_percentage(p, t) == IF t > 0 THEN Min(10000, RoundDiv(10000 * p, t)) ELSE 0

\* _calculate_progress divides processed_items by elapsed_time when it
\* computes the estimated completion: ZeroDivisionError when no time elapsed.
CalcRaises(p, t, elapsed) ==
    p > 0 /\ t > 0 /\ progress_percentage(p, t) < 10000 /\ elapsed = 0

\* The estimate is a formatted time when the branch that computes it is
\* entered (and the division in it did not raise), "unknown" otherwise.
estimated_completion(p, t) ==
    IF p > 0 /\ t > 0 /\ progress_percentage(p, t) < 10000
    THEN "computed" ELSE "unknown"

\* error_message of a call that passes none (the default None), and of a
\* snapshot that has no such key
NoMessage == "<none>"

\* "if error_message:" - neither None nor an empty text is attached
Attached(err) == IF err \in {NoMessage, ""} THEN NoMessage ELSE err

Snapshot(st, p, f, err) ==
    [status |-> st, processed_items |-> p, failed_items |-> f,
     total_items |-> total_items, error_message |-> Attached(err),
     progress_percentage |-> progress_percentage(p, total_items),
     estimated_completion |-> estimated_completion(p, total_items)]

\* time.time() read at a tracker call: not before the previous reading.
ClockReadings == now..MaxClock

\* _save_progress run by one thread with no other thread touching the
\* tracker; t is the time it reads.
SaveProgress(t, st, p, f, err) ==
    /\ now' = t
    /\ calc_error' = CalcRaises(p, total_items, t)
    /\ IF CalcRaises(p, total_items, t)
       THEN UNCHANGED <<file, lastSnap>>
       ELSE /\ file' = [data |-> Snapshot(st, p, f, err), state |-> "full"]
            /\ lastSnap' = Snapshot(st, p, f, err)

TrackerStart(t) ==
    /\ status' = "running"
    /\ UNCHANGED <<processed_items, failed_items>>
    /\ SaveProgress(t, "running", processed_items, failed_items, NoMessage)

TrackerUpdateMut(t, processed, failed_) ==
    /\ processed_items' = processed_items + processed
    /\ UNCHANGED <<failed_items, status>>
    /\ SaveProgress(t, status, processed_items + processed, failed_items,
                    NoMessage)

TrackerUpdate(t, processed, failed_) ==
    /\ processed_items' = processed_items + processed
    /\ failed_items' = failed_items + failed_
    /\ UNCHANGED status
    /\ SaveProgress(t, status, processed_items + processed,
                    failed_items + failed_, NoMessage)

UpdateRaises(t, processed) ==
    CalcRaises(processed_items + processed, total_items, t)

TrackerCompleteMut(t) ==
    /\ status' = (IF failed_items > 0 THEN "failed" ELSE "completed")
    /\ UNCHANGED <<processed_items, failed_items>>
    /\ SaveProgress(t, status', processed_items, failed_items, NoMessage)

TrackerComplete(t) ==
    /\ status' = "completed"
    /\ UNCHANGED <<processed_items, failed_items>>
    /\ SaveProgress(t, "completed", processed_items, failed_items, NoMessage)

TrackerFail(t, error_message) ==
    /\ status' = "failed"
    /\ UNCHANGED <<processed_items, failed_items>>
    /\ SaveProgress(t, "failed", processed_items, failed_items, error_message)

\* ---------------------------------------------------------------- tracker callers
Threads == 1..NumThreads

NoCall == [op |-> "none", processed |-> 0, failed |-> 0, message |-> NoMessage]
NotRead == [kind |-> "unread"]
NoSnapshot == [status |-> "none"]

\* main is not running: write_to_dynamo is called on its own
MainIdle ==
    /\ mpc = "none"
    /\ exit_code = -1
    /\ no_monitor = TRUE
    /\ read_error = "none"
    /\ config_error = "none"

\* nothing is being converted
ConvIdle ==
    /\ cpc = "none"
    /\ conv_value = <<>>
    /\ conv_type = <<>>
    /\ conv_result = None
    /\ conv_item = None
    /\ conv_row = <<>>
    /\ conv_field = <<>>

ThreadsIdle ==
    /\ tpc = [th \in Threads |-> "idle"]
    /\ tcall = [th \in Threads |-> NoCall]
    /\ treg = [th \in Threads |-> 0]
    /\ tsnap = [th \in Threads |-> NoSnapshot]
    /\ ncalls = 0
    /\ sumP = 0
    /\ sumF = 0
    /\ readerResult = NotRead

\* ---------------------------------------------------------------- write_to_dynamo
BatchFullMut(batch, size) == Len(batch) > size

\* "if len(current_batch) >= config.batch_size"
BatchFull(batch, size) == Len(batch) >= size

AddItemMut(batch, item) == <<item>> \o batch

\* "current_batch.append(item)"
AddItem(batch, item) == Append(batch, item)

\* tracker.start()
Start ==
    /\ pc = "start"
    /\ IF tracker
       THEN \E t \in ClockReadings : TrackerStart(t)
       ELSE UNCHANGED <<trackerVars, now>>
    /\ pc' = "form"
    /\ UNCHANGED <<threadVars, mainVars, convVars>>
    /\ UNCHANGED <<rows, batch_size, max_workers, table, tracker, total_items, i,
                   batches, current_batch, successful, failed, futures, k,
                   updateCalls>>

\* one iteration of "for row in rows"
FormRow ==
    /\ pc = "form"
    /\ i < Len(rows)
    /\ i' = i + 1
    /\ LET item == transform_row(rows[i + 1]) IN
         IF item.kind = "raise"
         THEN /\ failed' = failed + 1
              /\ IF tracker
                 THEN \E t \in ClockReadings :
                        /\ TrackerUpdate(t, 0, 1)
                        /\ pc' = IF UpdateRaises(t, 0) THEN "raised" ELSE "form"
                 ELSE UNCHANGED <<trackerVars, now, pc>>
              /\ UNCHANGED <<batches, current_batch>>
         ELSE /\ IF Truthy(item.doc)
                 THEN IF BatchFull(AddItem(current_batch, item.doc), batch_size)
                      THEN /\ batches' = Append(batches, AddItem(current_batch, item.doc))
                           /\ current_batch' = <<>>
                      ELSE /\ current_batch' = AddItem(current_batch, item.doc)
                           /\ UNCHANGED batches
                 ELSE UNCHANGED <<batches, current_batch>>
              /\ UNCHANGED <<failed, pc, trackerVars, now>>
    /\ UNCHANGED <<threadVars, mainVars, convVars>>
    /\ UNCHANGED <<rows, batch_size, max_workers, table, tracker, total_items,
                   successful, futures, k, updateCalls>>

SubmitBatchesMut(bs, workers) ==
    [b \in 1..Min(Len(bs), workers) |-> "pending"]

\* every batch is submitted to the pool, whatever the number of workers
SubmitBatches(bs, workers) == [b \in 1..Len(bs) |-> "pending"]

\* the source is exhausted: the last batch, then the submission of all batches
Submit ==
    /\ pc = "form"
    /\ i = Len(rows)
    /\ read_error # "write"
    /\ LET all == IF current_batch # <<>> THEN Append(batches, current_batch)
                  ELSE batches
       IN  /\ batches' = all
           /\ futures' = SubmitBatches(all, max_workers)
           /\ updateCalls' = [b \in 1..Len(all) |-> 0]
    /\ k' = 1
    /\ pc' = "collect"
    /\ UNCHANGED <<threadVars, mainVars, convVars>>
    /\ UNCHANGED <<rows, batch_size, max_workers, table, tracker, total_items, i,
                   current_batch, successful, failed, trackerVars, now>>

Running == { b \in 1..Len(futures) : futures[b] = "running" }
Pending == { b \in 1..Len(futures) : futures[b] = "pending" }

\* a pool thread takes the next work item of the queue
StartTask ==
    /\ Pending # {}
    /\ Cardinality(Running) < max_workers
    /\ LET b == CHOOSE p \in Pending : \A q \in Pending : p <= q
       IN  futures' = [futures EXCEPT ![b] = "running"]
    /\ UNCHANGED <<threadVars, mainVars, convVars>>
    /\ UNCHANGED <<rows, batch_size, max_workers, table, tracker, total_items, pc,
                   i, batches, current_batch, successful, failed, k, updateCalls,
                   trackerVars, now>>

\* process_batch returns or throws in a pool thread
FinishTask ==
    /\ \E b \in Running : futures' = [futures EXCEPT ![b] = "finished"]
    /\ UNCHANGED <<threadVars, mainVars, convVars>>
    /\ UNCHANGED <<rows, batch_size, max_workers, table, tracker, total_items, pc,
                   i, batches, current_batch, successful, failed, k, updateCalls,
                   trackerVars, now>>

\* the count the except branch assumes for a failed batch
FailedBatchSize(bs, size) == Min(size, IF bs # <<>> THEN Len(bs[1]) ELSE 0)

\* the try block of one iteration of "for future in futures"
Collect ==
    /\ pc = "collect"
    /\ k <= Len(futures)
    /\ futures[k] = "finished"
    /\ LET out == process_batch(table, batches[k]) IN
         IF out.threw
         THEN /\ pc' = "except"
              /\ UNCHANGED <<successful, failed, k, updateCalls, trackerVars, now>>
         ELSE /\ successful' = successful + out.successful
              /\ failed' = failed + out.failed
              /\ IF tracker
                 THEN \E t \in ClockReadings :
                        /\ TrackerUpdate(t, out.successful, out.failed)
                        /\ updateCalls' = [updateCalls EXCEPT ![k] = @ + 1]
                        /\ IF UpdateRaises(t, out.successful)
                           THEN pc' = "except" /\ k' = k
                           ELSE pc' = "collect" /\ k' = k + 1
                 ELSE /\ UNCHANGED <<trackerVars, now, updateCalls, pc>>
                      /\ k' = k + 1
    /\ UNCHANGED <<threadVars, mainVars, convVars>>
    /\ UNCHANGED <<rows, batch_size, max_workers, table, tracker, total_items, i,
                   batches, current_batch, futures>>

\* the except block of the same iteration
Except ==
    /\ pc = "except"
    /\ failed' = failed + FailedBatchSize(batches, batch_size)
    /\ IF tracker
       THEN \E t \in ClockReadings :
              /\ TrackerUpdate(t, 0, FailedBatchSize(batches, batch_size))
              /\ updateCalls' = [updateCalls EXCEPT ![k] = @ + 1]
              /\ IF UpdateRaises(t, 0)
                 THEN pc' = "unwind" /\ k' = k
                 ELSE pc' = "collect" /\ k' = k + 1
       ELSE /\ UNCHANGED <<trackerVars, now, updateCalls>>
            /\ pc' = "collect"
            /\ k' = k + 1
    /\ UNCHANGED <<threadVars, mainVars, convVars>>
    /\ UNCHANGED <<rows, batch_size, max_workers, table, tracker, total_items, i,
                   batches, current_batch, successful, futures>>

\* leaving the "with" block on an exception waits for the pool, then re-raises
Unwind ==
    /\ pc = "unwind"
    /\ \A b \in 1..Len(futures) : futures[b] = "finished"
    /\ pc' = "raised"
    /\ UNCHANGED <<threadVars, mainVars, convVars>>
    /\ UNCHANGED <<rows, batch_size, max_workers, table, tracker, total_items, i,
                   batches, current_batch, successful, failed, futures, k,
                   updateCalls, trackerVars, now>>

AllCollectedMut(kk, fs) == kk >= Len(fs)

\* "for future in futures" has taken the result of every future
AllCollected(kk, fs) == kk > Len(fs)

\* tracker.complete() and the return
Complete ==
    /\ pc = "collect"
    /\ AllCollected(k, futures)
    /\ IF tracker
       THEN \E t \in ClockReadings :
              /\ TrackerComplete(t)
              /\ pc' = IF CalcRaises(processed_items, total_items, t)
                       THEN "raised" ELSE "done"
       ELSE UNCHANGED <<trackerVars, now>> /\ pc' = "done"
    /\ UNCHANGED <<threadVars, mainVars, convVars>>
    /\ UNCHANGED <<rows, batch_size, max_workers, table, tracker, total_items, i,
                   batches, current_batch, successful, failed, futures, k,
                   updateCalls>>

Init ==
    /\ rows \in SeqsUpTo(RowValues, MaxRows)
    /\ batch_size \in 1..MaxBatchSize
    /\ max_workers \in 1..MaxWorkers
    /\ table \in [DocsOf(rows) -> PutResults]
    /\ tracker \in BOOLEAN
    /\ total_items = (IF tracker THEN Len(rows) ELSE 0)
    /\ pc = "start"
    /\ i = 0
    /\ batches = <<>>
    /\ current_batch = <<>>
    /\ successful = 0
    /\ failed = 0
    /\ futures = <<>>
    /\ k = 1
    /\ updateCalls = <<>>
    /\ status = "pending"
    /\ processed_items = 0
    /\ failed_items = 0
    /\ calc_error = FALSE
    /\ now = 0
    /\ file = [data |-> Snapshot("pending", 0, 0, NoMessage), state |-> "full"]
    /\ lastSnap = Snapshot("pending", 0, 0, NoMessage)
    /\ ThreadsIdle
    /\ MainIdle
    /\ ConvIdle

Next ==
    \/ Start
    \/ FormRow
    \/ Submit
    \/ StartTask
    \/ FinishTask
    \/ Collect
    \/ Except
    \/ Unwind
    \/ Complete

Spec == Init /\ [][Next]_vars

\* ---------------------------------------------------------------- main
\* def count_csv_rows(file_path) of progress_tracker (and of the fallback),
\* and the arguments main passes: count_csv_rows(config.csv_file,
\* encoding=config.encoding).  A keyword the function does not have is a
\* TypeError.
count_csv_rows_params == {"file_path"}
MainCountArguments == {"file_path", "encoding"}
CountCallRaises == ~(MainCountArguments \subseteq count_csv_rows_params)

\* parse_arguments loads the schema file: parser.error on invalid JSON ends
\* the process with status 2 before main has done anything.
MainParseArguments ==
    /\ mpc = "args"
    /\ IF config_error = "invalid_json"
       THEN exit_code' = 2 /\ mpc' = "returned"
       ELSE mpc' = "init" /\ UNCHANGED exit_code
    /\ UNCHANGED <<rows, batch_size, max_workers, table, tracker, total_items, pc,
                   i, batches, current_batch, successful, failed, futures, k,
                   updateCalls, trackerVars, now>>
    /\ UNCHANGED <<no_monitor, read_error, config_error, convVars, threadVars>>

\* "Initialize progress tracking": any exception leaves tracker = None
MainInitTracker ==
    /\ mpc = "init"
    /\ mpc' = "schema"
    /\ IF ~no_monitor /\ ~CountCallRaises
       THEN /\ tracker' = TRUE
            /\ total_items' = Len(rows)
            /\ lastSnap' = [Snapshot("pending", 0, 0, NoMessage) EXCEPT
                              !.total_items = Len(rows)]
            /\ file' = [data |-> lastSnap', state |-> "full"]
       ELSE /\ tracker' = FALSE
            /\ UNCHANGED <<total_items, lastSnap, file>>
    /\ UNCHANGED <<status, processed_items, failed_items, calc_error, now>>
    /\ UNCHANGED <<rows, batch_size, max_workers, table, pc, i, batches,
                   current_batch, successful, failed, futures, k, updateCalls>>
    /\ UNCHANGED <<exit_code, no_monitor, read_error, config_error, convVars,
                   threadVars>>

\* the top-level keys of the schema file
SchemaKeys(error) ==
    IF error = "no_mapping" THEN {"hash_key"} ELSE {"hash_key", "mapping"}

validate_schemaMut(schema) == TRUE

validate_schema(schema) == IF schema = {} THEN TRUE ELSE "mapping" \in schema

\* "Validate schema if provided" and "Verify table exists and is accessible":
\* the schema file is loaded again and validated, then describe_table is
\* called; each failure is reported with tracker.fail and ends main with 1.
MainLoadSchema ==
    /\ mpc = "schema"
    /\ IF \/ config_error = "invalid_json"
          \/ ~validate_schema(SchemaKeys(config_error))
          \/ config_error = "table"
       THEN /\ IF tracker
               THEN \E t \in ClockReadings : TrackerFail(t, "boom")
               ELSE UNCHANGED <<trackerVars, now>>
            /\ exit_code' = 1
            /\ mpc' = "returned"
       ELSE /\ mpc' = "sample"
            /\ UNCHANGED <<exit_code, trackerVars, now>>
    /\ UNCHANGED <<rows, batch_size, max_workers, table, tracker, total_items, pc,
                   i, batches, current_batch, successful, failed, futures, k,
                   updateCalls>>
    /\ UNCHANGED <<no_monitor, read_error, config_error, convVars, threadVars>>

\* "Process a sample row to validate schema before full import": the first
\* row of a second pass over the file is transformed and checked for the keys
\* (the schema of the job declares no range key).
SampleProblem(rs) ==
    /\ rs # <<>>
    /\ \/ transform_row(rs[1]).kind = "raise"
       \/ ~Truthy(transform_row(rs[1]).doc)
       \/ hash_key \notin DOMAIN transform_row(rs[1]).doc

MainSample ==
    /\ mpc = "sample"
    /\ IF read_error = "sample" \/ SampleProblem(rows)
       THEN /\ IF tracker
               THEN \E t \in ClockReadings : TrackerFail(t, "boom")
               ELSE UNCHANGED <<trackerVars, now>>
            /\ exit_code' = 1
            /\ mpc' = "returned"
            /\ UNCHANGED pc
       ELSE /\ mpc' = "write"
            /\ pc' = "start"
            /\ UNCHANGED <<exit_code, trackerVars, now>>
    /\ UNCHANGED <<rows, batch_size, max_workers, table, tracker, total_items, i,
                   batches, current_batch, successful, failed, futures, k,
                   updateCalls>>
    /\ UNCHANGED <<no_monitor, read_error, config_error, convVars, threadVars>>

\* the generator read_csv_data raises in "for row in rows": the exception
\* leaves write_to_dynamo
ReadError ==
    /\ pc = "form"
    /\ i = Len(rows)
    /\ read_error = "write"
    /\ pc' = "read_error"
    /\ UNCHANGED <<rows, batch_size, max_workers, table, tracker, total_items, i,
                   batches, current_batch, successful, failed, futures, k,
                   updateCalls, trackerVars, now>>
    /\ UNCHANGED <<threadVars, mainVars, convVars>>

ExitCodeMut(raised, succ, fail) == IF fail > 0 /\ succ = 0 THEN 1 ELSE 0

\* what main returns: 1 from "except Exception", else by the two counts
ExitCode(raised, succ, fail) ==
    IF raised THEN 1 ELSE IF fail > 0 /\ succ = 0 THEN 1 ELSE 0

\* write_to_dynamo returned
MainReturn ==
    /\ mpc = "write"
    /\ pc = "done"
    /\ exit_code' = ExitCode(FALSE, successful, failed)
    /\ mpc' = "returned"
    /\ UNCHANGED <<rows, batch_size, max_workers, table, tracker, total_items, pc,
                   i, batches, current_batch, successful, failed, futures, k,
                   updateCalls, trackerVars, now>>
    /\ UNCHANGED <<no_monitor, read_error, config_error, convVars, threadVars>>

\* "except Exception" of main: write_to_dynamo raised
MainExcept ==
    /\ mpc = "write"
    /\ pc \in {"raised", "read_error"}
    /\ IF tracker
       THEN \E t \in ClockReadings : TrackerFail(t, "boom")
       ELSE UNCHANGED <<trackerVars, now>>
    /\ exit_code' = ExitCode(TRUE, successful, failed)
    /\ mpc' = "returned"
    /\ UNCHANGED <<rows, batch_size, max_workers, table, tracker, total_items, pc,
                   i, batches, current_batch, successful, failed, futures, k,
                   updateCalls>>
    /\ UNCHANGED <<no_monitor, read_error, config_error, convVars, threadVars>>

ReadErrors == {"none", "sample", "write"}

ConfigErrors == {"none", "invalid_json", "no_mapping", "table"}

InitMain ==
    /\ rows \in SeqsUpTo(RowValues, MaxRows)
    /\ batch_size \in 1..MaxBatchSize
    /\ max_workers \in 1..MaxWorkers
    /\ table \in [DocsOf(rows) -> PutResults]
    /\ tracker = FALSE
    /\ total_items = 0
    /\ pc = "idle"
    /\ i = 0
    /\ batches = <<>>
    /\ current_batch = <<>>
    /\ successful = 0
    /\ failed = 0
    /\ futures = <<>>
    /\ k = 1
    /\ updateCalls = <<>>
    /\ status = "pending"
    /\ processed_items = 0
    /\ failed_items = 0
    /\ calc_error = FALSE
    /\ now = 0
    /\ file = [data |-> NoSnapshot, state |-> "empty"]
    /\ lastSnap = NoSnapshot
    /\ ThreadsIdle
    /\ ConvIdle
    /\ mpc = "args"
    /\ exit_code = -1
    /\ no_monitor \in BOOLEAN
    /\ read_error \in ReadErrors
    /\ config_error \in ConfigErrors
    /\ config_error # "none" => read_error = "none"

\* main never holds a tracker (MainInitTracker), so the tracker's exceptions
\* and the unwinding they cause do not occur under main.
NextMain ==
    \/ MainParseArguments
    \/ MainInitTracker
    \/ MainLoadSchema
    \/ MainSample
    \/ Start
    \/ FormRow
    \/ ReadError
    \/ Submit
    \/ StartTask
    \/ FinishTask
    \/ Collect
    \/ Except
    \/ Complete
    \/ MainReturn
    \/ MainExcept

SpecMain == InitMain /\ [][NextMain]_vars

\* ---------------------------------------------------------------- ProgressTracker, step by step
\* Threads call start, update, complete and fail on one tracker; each call
\* runs as the sequence of attribute loads and stores, the build of
\* progress_data, the open of the progress file and the write into it.
Messages == {"", "boom"}

BeginCall(th, call, first) ==
    /\ tpc[th] = "idle"
    /\ ncalls < MaxCalls
    /\ ncalls' = ncalls + 1
    /\ tcall' = [tcall EXCEPT ![th] = call]
    /\ tpc' = [tpc EXCEPT ![th] = first]

CallStart(th) ==
    /\ BeginCall(th, [NoCall EXCEPT !.op = "start"], "set_status")
    /\ UNCHANGED <<pipeVars, trackerVars, now, treg, tsnap, sumP, sumF, readerResult>>

CallComplete(th) ==
    /\ BeginCall(th, [NoCall EXCEPT !.op = "complete"], "set_status")
    /\ UNCHANGED <<pipeVars, trackerVars, now, treg, tsnap, sumP, sumF, readerResult>>

CallFail(th) ==
    /\ \E m \in Messages :
         BeginCall(th, [NoCall EXCEPT !.op = "fail", !.message = m], "set_status")
    /\ UNCHANGED <<pipeVars, trackerVars, now, treg, tsnap, sumP, sumF, readerResult>>

CallUpdate(th) ==
    /\ \E p \in 0..MaxDelta, f \in 0..MaxDelta :
         /\ BeginCall(th, [NoCall EXCEPT !.op = "update", !.processed = p,
                                         !.failed = f], "load_processed")
         /\ sumP' = sumP + p
         /\ sumF' = sumF + f
    /\ UNCHANGED <<pipeVars, trackerVars, now, treg, tsnap, readerResult>>

StatusOf(op) ==
    CASE op = "start" -> "running"
      [] op = "complete" -> "completed"
      [] op = "fail" -> "failed"

\* self.status = ...
SetStatus(th) ==
    /\ tpc[th] = "set_status"
    /\ status' = StatusOf(tcall[th].op)
    /\ tpc' = [tpc EXCEPT ![th] = "build"]
    /\ UNCHANGED <<pipeVars, calc_error, processed_items, failed_items, file, lastSnap, now,
                   tcall, treg, tsnap, ncalls, sumP, sumF, readerResult>>

\* self.processed_items += processed : load, then add and store
LoadProcessed(th) ==
    /\ tpc[th] = "load_processed"
    /\ treg' = [treg EXCEPT ![th] = processed_items]
    /\ tpc' = [tpc EXCEPT ![th] = "store_processed"]
    /\ UNCHANGED <<pipeVars, trackerVars, now, tcall, tsnap, ncalls, sumP, sumF,
                   readerResult>>

\* the store writes the value loaded earlier plus the argument
AddTo(loaded, delta) == loaded + delta

StoreProcessed(th) ==
    /\ tpc[th] = "store_processed"
    /\ processed_items' = AddTo(treg[th], tcall[th].processed)
    /\ treg' = [treg EXCEPT ![th] = 0]
    /\ tpc' = [tpc EXCEPT ![th] = "load_failed"]
    /\ UNCHANGED <<pipeVars, calc_error, status, failed_items, file, lastSnap, now, tcall,
                   tsnap, ncalls, sumP, sumF, readerResult>>

\* self.failed_items += failed
LoadFailed(th) ==
    /\ tpc[th] = "load_failed"
    /\ treg' = [treg EXCEPT ![th] = failed_items]
    /\ tpc' = [tpc EXCEPT ![th] = "store_failed"]
    /\ UNCHANGED <<pipeVars, trackerVars, now, tcall, tsnap, ncalls, sumP, sumF,
                   readerResult>>

StoreFailed(th) ==
    /\ tpc[th] = "store_failed"
    /\ failed_items' = AddTo(treg[th], tcall[th].failed)
    /\ treg' = [treg EXCEPT ![th] = 0]
    /\ tpc' = [tpc EXCEPT ![th] = "build"]
    /\ UNCHANGED <<pipeVars, calc_error, status, processed_items, file, lastSnap, now, tcall,
                   tsnap, ncalls, sumP, sumF, readerResult>>

\* _save_progress builds progress_data from the fields and calls
\* _calculate_progress; a ZeroDivisionError there ends the call.
BuildSnapshot(th) ==
    /\ tpc[th] = "build"
    /\ \E t \in ClockReadings :
         /\ now' = t
         /\ calc_error' = CalcRaises(processed_items, total_items, t)
         /\ IF CalcRaises(processed_items, total_items, t)
            THEN /\ tpc' = [tpc EXCEPT ![th] = "idle"]
                 /\ tcall' = [tcall EXCEPT ![th] = NoCall]
                 /\ UNCHANGED tsnap
            ELSE /\ UNCHANGED tcall
                 /\ tsnap' = [tsnap EXCEPT ![th] =
                                Snapshot(status, processed_items, failed_items,
                                         tcall[th].message)]
                 /\ tpc' = [tpc EXCEPT ![th] = "open"]
    /\ UNCHANGED <<pipeVars, status, processed_items, failed_items, file, lastSnap,
                   treg, ncalls, sumP, sumF, readerResult>>

\* open(self.progress_file, 'w') truncates the file
OpenFile(th) ==
    /\ tpc[th] = "open"
    /\ file' = [data |-> NoSnapshot, state |-> "empty"]
    /\ tpc' = [tpc EXCEPT ![th] = "write"]
    /\ UNCHANGED <<pipeVars, calc_error, status, processed_items, failed_items, lastSnap, now,
                   tcall, treg, tsnap, ncalls, sumP, sumF, readerResult>>

\* json.dump and the close flush the text at offset 0.  Over text another
\* writer flushed since this writer's open, a shorter text leaves the tail of
\* the longer one behind it.
WriteFile(th) ==
    /\ tpc[th] = "write"
    /\ \/ /\ file' = [data |-> tsnap[th], state |-> "full"]
          /\ lastSnap' = tsnap[th]
       \/ /\ file.state # "empty"
          /\ file.data # tsnap[th]
          /\ file' = [data |-> tsnap[th], state |-> "garbled"]
          /\ UNCHANGED lastSnap
    /\ tpc' = [tpc EXCEPT ![th] = "idle"]
    /\ tcall' = [tcall EXCEPT ![th] = NoCall]
    /\ tsnap' = [tsnap EXCEPT ![th] = NoSnapshot]
    /\ UNCHANGED <<pipeVars, calc_error, status, processed_items, failed_items, now, treg,
                   ncalls, sumP, sumF, readerResult>>

\* monitor_server.load_job_data: the parsed file, or None when json.load fails
LoadJobData ==
    /\ readerResult' = IF file.state = "full"
                       THEN [kind |-> "snapshot", data |-> file.data]
                       ELSE [kind |-> "none"]
    /\ UNCHANGED <<pipeVars, trackerVars, now, tpc, tcall, treg, tsnap, ncalls,
                   sumP, sumF>>

InitTracker ==
    /\ rows = <<>>
    /\ batch_size = 1
    /\ max_workers = 1
    /\ table = <<>>
    /\ tracker = TRUE
    /\ total_items \in 0..MaxTotal
    /\ pc = "detached"
    /\ i = 0
    /\ batches = <<>>
    /\ current_batch = <<>>
    /\ successful = 0
    /\ failed = 0
    /\ futures = <<>>
    /\ k = 1
    /\ updateCalls = <<>>
    /\ status = "pending"
    /\ processed_items = 0
    /\ failed_items = 0
    /\ calc_error = FALSE
    /\ now = 0
    /\ file = [data |-> Snapshot("pending", 0, 0, NoMessage), state |-> "full"]
    /\ lastSnap = Snapshot("pending", 0, 0, NoMessage)
    /\ ThreadsIdle
    /\ MainIdle
    /\ ConvIdle

NextTracker ==
    \/ \E th \in Threads : CallStart(th)
    \/ \E th \in Threads : CallUpdate(th)
    \/ \E th \in Threads : CallComplete(th)
    \/ \E th \in Threads : CallFail(th)
    \/ \E th \in Threads : SetStatus(th)
    \/ \E th \in Threads : LoadProcessed(th)
    \/ \E th \in Threads : StoreProcessed(th)
    \/ \E th \in Threads : LoadFailed(th)
    \/ \E th \in Threads : StoreFailed(th)
    \/ \E th \in Threads : BuildSnapshot(th)
    \/ \E th \in Threads : OpenFile(th)
    \/ \E th \in Threads : WriteFile(th)
    \/ LoadJobData

SpecTracker == InitTracker /\ [][NextTracker]_vars

\* Threads that only call update, as the completions of batches would.
NextUpdates ==
    \/ \E th \in Threads : CallUpdate(th)
    \/ \E th \in Threads : LoadProcessed(th)
    \/ \E th \in Threads : StoreProcessed(th)
    \/ \E th \in Threads : LoadFailed(th)
    \/ \E th \in Threads : StoreFailed(th)
    \/ \E th \in Threads : BuildSnapshot(th)
    \/ \E th \in Threads : OpenFile(th)
    \/ \E th \in Threads : WriteFile(th)

SpecUpdates == InitTracker /\ [][NextUpdates]_vars

\* ---------------------------------------------------------------- ProgressTracker, one caller
\* One thread calls start, update, complete and fail, each call running to
\* its return before the next; tcall[1] keeps the call made last.
DoStart ==
    /\ ncalls < MaxCalls
    /\ ncalls' = ncalls + 1
    /\ \E t \in ClockReadings : TrackerStart(t)
    /\ tcall' = [tcall EXCEPT ![1] = [NoCall EXCEPT !.op = "start"]]
    /\ UNCHANGED <<pipeVars, tpc, treg, tsnap, sumP, sumF, readerResult>>

DoUpdate ==
    /\ ncalls < MaxCalls
    /\ ncalls' = ncalls + 1
    /\ \E p \in 0..MaxDelta, f \in 0..MaxDelta, t \in ClockReadings :
         /\ TrackerUpdate(t, p, f)
         /\ sumP' = sumP + p
         /\ sumF' = sumF + f
         /\ tcall' = [tcall EXCEPT ![1] = [NoCall EXCEPT !.op = "update",
                                             !.processed = p, !.failed = f]]
    /\ UNCHANGED <<pipeVars, tpc, treg, tsnap, readerResult>>

DoComplete ==
    /\ ncalls < MaxCalls
    /\ ncalls' = ncalls + 1
    /\ \E t \in ClockReadings : TrackerComplete(t)
    /\ tcall' = [tcall EXCEPT ![1] = [NoCall EXCEPT !.op = "complete"]]
    /\ UNCHANGED <<pipeVars, tpc, treg, tsnap, sumP, sumF, readerResult>>

DoFail ==
    /\ ncalls < MaxCalls
    /\ ncalls' = ncalls + 1
    /\ \E t \in ClockReadings, m \in Messages :
         /\ TrackerFail(t, m)
         /\ tcall' = [tcall EXCEPT ![1] = [NoCall EXCEPT !.op = "fail",
                                             !.message = m]]
    /\ UNCHANGED <<pipeVars, tpc, treg, tsnap, sumP, sumF, readerResult>>

NextCalls ==
    \/ DoStart
    \/ DoUpdate
    \/ DoComplete
    \/ DoFail

SpecCalls == InitTracker /\ [][NextCalls]_vars

\* ---------------------------------------------------------------- conversion of one field
\* type_converter and build_nested_structure applied to one CSV value under
\* one type tag.
Texts ==
    { <<>>, <<"1">>, <<"1", "2">>, <<"x">>, <<"y">>,
      <<"1", ",", "2">>, <<"1", ",", "x">>,
      <<" ", "a", " ", ",", " ", "b", " ">>, <<",">>,
      <<"a", ",", ",", "a">>, <<"{", "}">>, <<"Y", "Q", "=", "=">>,
      <<"n", "u", "l", "l">> }

TypeTags ==
    { TypeS, TypeN, TypeBOOL, TypeB, TypeNULL, TypeSS, TypeNS,
      <<"L">>, <<"L", ":", "S">>, <<"L", ":", "N">>, <<"L", ":", "B">>,
      <<"M">>, <<"X">> }

KeyTags == <<"t", "a", "g", "s">>

\* the schema leaf "tags:<type>" for the output field "tags"
FieldInfo(field_type) == KeyTags \o <<":">> \o field_type

Convert ==
    /\ cpc = "input"
    /\ conv_result' = type_converter(conv_value, conv_type)
    /\ cpc' = "converted"
    /\ UNCHANGED <<conv_value, conv_type, conv_item, conv_row, conv_field>>
    /\ UNCHANGED <<rows, batch_size, max_workers, table, tracker, total_items, pc,
                   i, batches, current_batch, successful, failed, futures, k,
                   updateCalls, mainVars, trackerVars, now, threadVars>>

BuildLeaf ==
    /\ cpc = "input"
    /\ conv_item' = build_nested_structure(
                      << <<KeyTags, conv_value>> >>,
                      << Leaf("tags", FieldInfo(conv_type)) >>)
    /\ cpc' = "built"
    /\ UNCHANGED <<conv_value, conv_type, conv_result, conv_row, conv_field>>
    /\ UNCHANGED <<rows, batch_size, max_workers, table, tracker, total_items, pc,
                   i, batches, current_batch, successful, failed, futures, k,
                   updateCalls, mainVars, trackerVars, now, threadVars>>

InitConvert ==
    /\ rows = <<>>
    /\ batch_size = 1
    /\ max_workers = 1
    /\ table = <<>>
    /\ tracker = FALSE
    /\ total_items = 0
    /\ pc = "detached"
    /\ i = 0
    /\ batches = <<>>
    /\ current_batch = <<>>
    /\ successful = 0
    /\ failed = 0
    /\ futures = <<>>
    /\ k = 1
    /\ updateCalls = <<>>
    /\ status = "pending"
    /\ processed_items = 0
    /\ failed_items = 0
    /\ calc_error = FALSE
    /\ now = 0
    /\ file = [data |-> NoSnapshot, state |-> "empty"]
    /\ lastSnap = NoSnapshot
    /\ ThreadsIdle
    /\ MainIdle
    /\ cpc = "input"
    /\ conv_value \in Texts
    /\ conv_type \in TypeTags
    /\ conv_result = None
    /\ conv_item = None
    /\ conv_row = <<>>
    /\ conv_field = <<>>

NextConvert ==
    \/ Convert
    \/ BuildLeaf

SpecConvert == InitConvert /\ [][NextConvert]_vars

\* ---------------------------------------------------------------- resolution of one field
\* build_nested_structure applied to a one-leaf mapping "id: <field>:S" and
\* a record whose keys are spellings of the column "id".
KeySpellings ==
    { KeyId, <<BOM>> \o KeyId, <<"I", "D">>, <<" ">> \o KeyId }

FieldSpellings == { KeyId, <<BOM>> \o KeyId, <<"I", "d">> }

CellValues == { <<>>, <<"a">>, <<"b">> }

\* records of at most n keys, no key twice
Records(n) ==
    { r \in SeqsUpTo(KeySpellings \X CellValues, n) :
        \A a, b \in 1..Len(r) : a # b => r[a][1] # r[b][1] }

ResolveLeaf ==
    /\ cpc = "input"
    /\ conv_item' = build_nested_structure(
                      conv_row, << Leaf("id", conv_field \o <<":", "S">>) >>)
    /\ cpc' = "resolved"
    /\ UNCHANGED <<conv_value, conv_type, conv_result, conv_row, conv_field>>
    /\ UNCHANGED <<rows, batch_size, max_workers, table, tracker, total_items, pc,
                   i, batches, current_batch, successful, failed, futures, k,
                   updateCalls, mainVars, trackerVars, now, threadVars>>

InitResolve ==
    /\ rows = <<>>
    /\ batch_size = 1
    /\ max_workers = 1
    /\ table = <<>>
    /\ tracker = FALSE
    /\ total_items = 0
    /\ pc = "detached"
    /\ i = 0
    /\ batches = <<>>
    /\ current_batch = <<>>
    /\ successful = 0
    /\ failed = 0
    /\ futures = <<>>
    /\ k = 1
    /\ updateCalls = <<>>
    /\ status = "pending"
    /\ processed_items = 0
    /\ failed_items = 0
    /\ calc_error = FALSE
    /\ now = 0
    /\ file = [data |-> NoSnapshot, state |-> "empty"]
    /\ lastSnap = NoSnapshot
    /\ ThreadsIdle
    /\ MainIdle
    /\ cpc = "input"
    /\ conv_value = <<>>
    /\ conv_type = TypeS
    /\ conv_result = None
    /\ conv_item = None
    /\ conv_row \in Records(MaxKeys)
    /\ conv_field \in FieldSpellings

NextResolve == ResolveLeaf

SpecResolve == InitResolve /\ [][NextResolve]_vars

\* ---------------------------------------------------------------- claims
RowKind(item) ==
    IF item.kind = "raise" THEN "raise"
    ELSE IF ~Truthy(item.doc) THEN "empty"
    ELSE IF hash_key \in DOMAIN item.doc THEN "doc" ELSE "nokey"

KindsOf(rs) == [j \in 1..Len(rs) |-> RowKind(transform_row(rs[j]))]

CountKinds(kinds, S) == Cardinality({ j \in 1..Len(kinds) : kinds[j] \in S })

NumDocs == CountKinds(KindsOf(rows), {"doc", "nokey"})

TransformFailures == CountKinds(KindsOf(rows), {"raise"})

RECURSIVE SumTo(_, _)
SumTo(f, n) == IF n = 0 THEN 0 ELSE f[n] + SumTo(f, n - 1)

CeilDiv(n, b) == (n + b - 1) \div b

Outcome(b) == process_batch(table, batches[b])

\* C1: when write_to_dynamo returns, successful + failed equals the number
\* of records the source yielded.
C1_CountsAddUp == pc = "done" => successful + failed = Len(rows)

\* C2: the except branch taken for a batch whose delivery threw adds the
\* number of items of that batch to failed, reports the same number to the
\* tracker, and goes on with the next future.
C2_ThrownBatchCounted ==
    [][ (pc = "except" /\ pc' # "except" /\ Outcome(k).threw) =>
          /\ failed' = failed + Len(batches[k])
          /\ tracker => failed_items' = failed_items + Len(batches[k])
          /\ pc' = "collect" /\ k' = k + 1 ]_vars

\* C4: every document put in a batch carries the hash key, and when
\* write_to_dynamo returns every record without it was counted as failed.
NoKeyRows == CountKinds(KindsOf(rows), {"nokey"})

C4_DocsHaveHashKey ==
    /\ \A b \in 1..Len(batches) : \A j \in 1..Len(batches[b]) :
          hash_key \in DOMAIN batches[b][j]
    /\ \A j \in 1..Len(current_batch) : hash_key \in DOMAIN current_batch[j]
    /\ pc = "done" => failed >= NoKeyRows

\* C6: when write_to_dynamo returns with a tracker attached, tracker.update
\* was called exactly once for every submitted batch.
C6_OneUpdatePerBatch ==
    (pc = "done" /\ tracker) => \A b \in 1..Len(batches) : updateCalls[b] = 1

\* C7: once the source is exhausted there are ceil(n/b) batches for the n
\* documents that transformed to a non-empty document; all but the last have
\* b items, the last has n mod b (b when that is 0), and none is empty.
PartitionOf(n, size, bs) ==
    /\ Len(bs) = CeilDiv(n, size)
    /\ \A b \in 1..Len(bs) : Len(bs[b]) >= 1
    /\ \A b \in 1..(Len(bs) - 1) : Len(bs[b]) = size
    /\ Len(bs) > 0 =>
         Len(bs[Len(bs)]) = (IF n % size = 0 THEN size ELSE n % size)

C7_Partition ==
    pc \notin {"start", "form"} => PartitionOf(NumDocs, batch_size, batches)

C7_Witness ==
    /\ pc = "done"
    /\ Len(batches) = 2
    /\ Len(batches[1]) = batch_size
    /\ Len(batches[2]) < batch_size

\* C8: the pair write_to_dynamo returns is determined by the rows, the batch
\* size, what the sink does with each batch and which tracker updates raised;
\* it is the same for every max_workers and every order in which the pool
\* threads finish.
ExpectedSuccessful ==
    SumTo([b \in 1..Len(batches) |->
             IF Outcome(b).threw THEN 0 ELSE Outcome(b).successful],
          Len(batches))

ExpectedFailed ==
    TransformFailures +
    SumTo([b \in 1..Len(batches) |->
             (IF Outcome(b).threw THEN 0 ELSE Outcome(b).failed) +
             (IF Outcome(b).threw \/ updateCalls[b] = 2
              THEN FailedBatchSize(batches, batch_size) ELSE 0)],
          Len(batches))

C8_SameForEveryWorkerCount ==
    pc = "done" => /\ successful = ExpectedSuccessful
                   /\ failed = ExpectedFailed

C8_Witness ==
    /\ pc = "done"
    /\ max_workers >= 2
    /\ Len(batches) >= 2
    /\ successful > 0
    /\ failed > 0

\* C3: when every update call has returned, the counters equal the sums of
\* the arguments passed.
C3_NoLostIncrement ==
    (\A th \in Threads : tpc[th] = "idle") =>
      /\ processed_items = sumP
      /\ failed_items = sumF

\* C5: a status of completed or failed is never changed again.
C5_TerminalStatusStays ==
    [][(status \in {"completed", "failed"}) => (status' = status)]_vars

\* C9: a read of the progress file never finds it empty or cut short.
C9_ReaderSeesSnapshot == readerResult.kind # "none"

\* C10: from one snapshot written in full to the next, processed_items and
\* failed_items do not decrease.
C10_PersistedCountersGrow ==
    [][ /\ lastSnap'.processed_items >= lastSnap.processed_items
        /\ lastSnap'.failed_items >= lastSnap.failed_items ]_vars

\* C11: in every persisted snapshot progress_percentage (in hundredths of a
\* percent) is 0 when total_items is 0, and otherwise the hundredth nearest
\* to 100 * processed_items / total_items, capped at 100; it never exceeds 100.
NearestHundredth(h, p, t) ==
    /\ 2 * (h * t - 10000 * p) <= t
    /\ 2 * (10000 * p - h * t) <= t

PercentageOf(snap) ==
    IF snap.total_items > 0
    THEN \/ /\ snap.progress_percentage < 10000
            /\ NearestHundredth(snap.progress_percentage, snap.processed_items,
                                snap.total_items)
         \/ /\ snap.progress_percentage = 10000
            /\ 2 * 10000 * snap.processed_items >= 19999 * snap.total_items
    ELSE snap.progress_percentage = 0

C11_PercentageClamped ==
    /\ PercentageOf(lastSnap)
    /\ lastSnap.progress_percentage <= 10000
    /\ file.state = "full" => file.data = lastSnap

C11_Witness ==
    /\ lastSnap.total_items > 0
    /\ lastSnap.processed_items > lastSnap.total_items
    /\ lastSnap.progress_percentage = 10000

\* C12: a tracker call never raises while it computes the estimate, and the
\* estimate of a persisted snapshot is a time exactly when processed_items > 0
\* and 0 < progress_percentage < 100.
C12_EstimateNeverRaises ==
    /\ ~calc_error
    /\ lastSnap.estimated_completion =
         (IF /\ lastSnap.processed_items > 0
             /\ 0 < lastSnap.progress_percentage
             /\ lastSnap.progress_percentage < 10000
          THEN "computed" ELSE "unknown")

\* C13: when the configuration is sound and no read error occurs, main runs
\* write_to_dynamo to its end whatever the records are: a record that does
\* not transform, the first one included, does not make main return before
\* the records are dispatched.
C13_BadRecordNotFatal ==
    (mpc = "returned" /\ read_error = "none" /\ config_error = "none")
      => pc = "done"

\* C15: when the source raises while write_to_dynamo forms the batches, no
\* batch is submitted to the pool, complete() is not called, a tracker, when
\* there is one, ends failed, and main returns a non-zero code.
C15_ReadErrorFatal ==
    pc = "read_error" =>
      /\ futures = <<>>
      /\ status # "completed"
      /\ mpc = "returned" => /\ exit_code # 0
                             /\ tracker => status = "failed"

C15_Witness ==
    /\ pc = "read_error"
    /\ mpc = "returned"
    /\ Len(batches) >= 1
    /\ failed = 0

\* C16: with monitoring enabled main holds a tracker from the start of the
\* job on.
C16_TrackerWired ==
    (mpc \notin {"args", "init"} /\ ~no_monitor /\ config_error # "invalid_json")
      => tracker

\* C14: when write_to_dynamo returns with failed > 0 and a tracker attached,
\* the tracker's status, in memory and in the persisted snapshot, is completed
\* and its failed_items is above 0.
C14_CompletedWithFailures ==
    (pc = "done" /\ tracker /\ failed > 0) =>
      /\ status = "completed"
      /\ failed_items > 0
      /\ lastSnap.status = "completed"
      /\ lastSnap.failed_items > 0

C14_Witness ==
    /\ pc = "done"
    /\ tracker
    /\ successful > 0
    /\ failed > TransformFailures
    /\ TransformFailures > 0

\* C20: when process_batch returns, successful + failed is the number of
\* items, failed is the number of items whose put_item raised ClientError,
\* and put_item was called for every item of the batch in the batch's order.
ClientErrors(b) ==
    Cardinality({ j \in 1..Len(batches[b]) : table[batches[b][j]] = "client_error" })

C20_PerItemFailures ==
    pc \in {"collect", "done"} =>
      \A b \in 1..Len(batches) :
        ~Outcome(b).threw =>
          /\ Outcome(b).successful + Outcome(b).failed = Len(batches[b])
          /\ Outcome(b).failed = ClientErrors(b)
          /\ Outcome(b).puts = batches[b]

C20_Witness ==
    /\ pc = "done"
    /\ \E b \in 1..Len(batches) :
         /\ Len(batches[b]) >= 2
         /\ table[batches[b][1]] = "client_error"
         /\ table[batches[b][2]] = "ok"

\* C17: type_converter and build_nested_structure never end with an
\* exception, whatever the value and the type tag.
C17_NeverRaises ==
    /\ conv_result.kind # "raise"
    /\ conv_item.kind # "raise"

\* C18: for an empty value type_converter returns True under the tag NULL and
\* None under every other tag, and build_nested_structure leaves out a field
\* whose conversion returned None.
C18_EmptyIsOmitted ==
    /\ (cpc = "converted" /\ conv_value = <<>>) =>
         conv_result = (IF conv_type = TypeNULL THEN Value(TRUE) ELSE None)
    /\ (cpc = "built" /\ conv_value = <<>> /\ conv_type # TypeNULL) =>
         conv_item = [kind |-> "doc", doc |-> <<>>]
    /\ (cpc = "built" /\ conv_value = <<>> /\ conv_type = TypeNULL) =>
         conv_item = [kind |-> "doc", doc |-> ("tags" :> TRUE)]

C18_Witness ==
    /\ cpc = "converted"
    /\ conv_value = <<>>
    /\ conv_type = TypeNULL
    /\ conv_result = Value(TRUE)

\* C19: for a leaf "tags:L:T" (T = S when left out) and a value that is not
\* empty, the field is the list of the trimmed, non-empty pieces of the value
\* converted with T, in order, without the pieces that did not convert.
ListTags == { <<"L">>, <<"L", ":", "S">>, <<"L", ":", "N">>, <<"L", ":", "B">> }

DeclaredSubtype(field_type) ==
    IF Len(field_type) > 2 THEN SubSeq(field_type, 3, Len(field_type)) ELSE TypeS

ExpectedList(value, subtype) ==
    SelectSeq([j \in 1..Len(NonEmptyPieces(value)) |->
                 type_converter(NonEmptyPieces(value)[j], subtype)],
              LAMBDA r : r.kind = "value")

C19_ListOfSubtype ==
    (cpc = "built" /\ conv_type \in ListTags /\ conv_value # <<>>) =>
      /\ conv_item.kind = "doc"
      /\ "tags" \in DOMAIN conv_item.doc
      /\ conv_item.doc["tags"] =
           [list |-> ExpectedList(conv_value, DeclaredSubtype(conv_type))]

\* C21: after fail(message) the status is failed, the persisted snapshot has
\* status failed and carries the message, and the counters are those from
\* before the call.
C21_FailAttachesMessage ==
    tcall[1].op = "fail" =>
      /\ status = "failed"
      /\ lastSnap.status = "failed"
      /\ lastSnap.error_message = tcall[1].message
      /\ lastSnap.processed_items = sumP
      /\ lastSnap.failed_items = sumF
      /\ processed_items = sumP
      /\ failed_items = sumF

NormalizedHits(row, f) ==
    { j \in 1..Len(row) : Lower(Strip(row[j][1])) = Lower(Strip(f)) }

FoundKey(row, f) ==
    IF f \in RowKeys(row) THEN << f >>
    ELSE IF StartsWithBOM(f) /\ Tail(f) \in RowKeys(row) THEN << Tail(f) >>
    ELSE IF ~StartsWithBOM(f) /\ (<<BOM>> \o f) \in RowKeys(row)
         THEN << <<BOM>> \o f >>
    ELSE IF NormalizedHits(row, f) # {}
         THEN << row[CHOOSE j \in NormalizedHits(row, f) :
                       \A h \in NormalizedHits(row, f) : j <= h][1] >>
    ELSE << >>

ExpectedDoc(row, f) ==
    IF FoundKey(row, f) = << >> \/ RowGet(row, FoundKey(row, f)[1]) = << >>
    THEN << >>
    ELSE "id" :> RowGet(row, FoundKey(row, f)[1])

C23_FirstStepWins ==
    cpc = "resolved" =>
      conv_item = [kind |-> "doc", doc |-> ExpectedDoc(conv_row, conv_field)]

\* C24: the batches, concatenated in the order they were formed, are the
\* documents of the records that transformed to a non-empty document, in
\* the order of the source, each once; while the source is being read the
\* same holds of the batches followed by the batch being filled.
RECURSIVE DocSeq(_)
DocSeq(rs) ==
    IF rs = <<>> THEN <<>>
    ELSE LET item == transform_row(Head(rs)) IN
           (IF item.kind = "doc" /\ Truthy(item.doc) THEN <<item.doc>> ELSE <<>>)
             \o DocSeq(Tail(rs))

RECURSIVE Flatten(_)
Flatten(bs) == IF bs = <<>> THEN <<>> ELSE Head(bs) \o Flatten(Tail(bs))

C24_BatchesInSourceOrder ==
    /\ pc = "form" =>
         Flatten(batches) \o current_batch = DocSeq(SubSeq(rows, 1, i))
    /\ pc \in {"collect", "except", "unwind", "done"} =>
         Flatten(batches) = DocSeq(rows)

C24_Witness ==
    /\ pc = "done"
    /\ Len(batches) >= 2
    /\ batches[1] # batches[2]
    /\ Len(Flatten(batches)) < Len(rows)

\* C25: outcomes are folded in order of completion: whenever a batch has
\* finished and its outcome is not yet folded, the collecting loop is not
\* held back by an earlier-submitted batch that is still in flight.
Unfolded == { b \in 1..Len(futures) : b >= k /\ futures[b] = "finished" }

C25_FoldedOnCompletion ==
    (pc = "collect" /\ Unfolded # {}) => futures[k] = "finished"

\* C26: when write_to_dynamo returns (successful, failed) and a tracker is
\* attached, the tracker's processed_items is successful and its
\* failed_items is failed, and so says the snapshot it persisted last.
C26_TrackerAgreesWithResult ==
    (pc = "done" /\ tracker) =>
      /\ processed_items = successful
      /\ failed_items = failed
      /\ lastSnap.processed_items = successful
      /\ lastSnap.failed_items = failed

\* a run with a record that raised in transform, a batch that returned an
\* outcome and a batch whose delivery threw
C26_Witness ==
    /\ pc = "done"
    /\ tracker
    /\ \E j \in 1..Len(rows) : transform_row(rows[j]).kind = "raise"
    /\ \E b \in 1..Len(batches) : process_batch(table, batches[b]).threw
    /\ \E b \in 1..Len(batches) : ~process_batch(table, batches[b]).threw
    /\ successful > 0

\* C27: within one run the tracker is started, then updated, then
\* completed. Nothing is reported before start() and the counters change
\* only while the job is running; no delivery has begun while the source
\* is still being read; complete() comes after the result of every
\* submitted batch was taken, and nothing is reported after it.
AllFinished == \A b \in 1..Len(futures) : futures[b] = "finished"

CallOrder ==
    /\ pc = "start" => /\ status = "pending"
                       /\ processed_items = 0
                       /\ failed_items = 0
                       /\ futures = <<>>
    /\ (tracker /\ pc \in {"form", "collect", "except"}) => status = "running"
    /\ (\E b \in 1..Len(futures) : futures[b] # "pending") =>
         /\ i = Len(rows)
         /\ pc \notin {"start", "form"}
    /\ status = "completed" => /\ pc \in {"done", "raised"}
                               /\ k > Len(futures)
                               /\ AllFinished
    /\ pc = "done" => AllFinished

UpdatesWhileRunning ==
    (processed_items' # processed_items \/ failed_items' # failed_items
       \/ (status = "completed" /\ lastSnap' # lastSnap)) =>
      /\ status = "running"
      /\ status' = "running"

C27_StartUpdatesComplete == [] CallOrder /\ [][UpdatesWhileRunning]_vars

C27_Witness ==
    /\ status = "completed"
    /\ pc = "done"
    /\ Len(futures) >= 2
    /\ processed_items > 0
    /\ failed_items > 0

\* C28: the exit code of main agrees with the status the job ends in: a
\* run in which write_to_dynamo returned, which is where the tracker is
\* marked completed, exits with 0, also when every item failed; and with a
\* tracker attached the exit code is non-zero exactly when its status is
\* failed.
C28_ExitAgreesWithStatus ==
    mpc = "returned" =>
      /\ pc = "done" => exit_code = 0
      /\ tracker => (exit_code # 0 <=> status = "failed")

====
